---- MODULE Spec2Model ----
(***************************************************************************)
(* Model of fast-lookup.cpp: the pipe-delimited equity record parser        *)
(* (EquityTextFactory), the keyed container (EquityMap), the loader         *)
(* (EquityLoader) and the query facade (EquityService).                     *)
(*                                                                          *)
(* A std::string is a sequence of characters; a character is a one-letter   *)
(* TLA+ string, the backspace character being written "BS".                 *)
(* A long long is kept as its canonical decimal digit sequence (no leading  *)
(* zeros), a double parsed from a decimal text as an integer number of      *)
(* 1/Scale units.                                                           *)
(***************************************************************************)
EXTENDS Integers, Sequences, FiniteSets, TLC

VARIABLES
    _Map,       \* EquityService::_Map, the service's store
    fresh,      \* TRUE until the input stream is first read
    istream,    \* once read, the lines still unread on the input stream
    selected,   \* the caller's EquityMap, filled by getPERange and Insert
    insLog,     \* the records passed to selected.Insert so far, in order
    call,       \* the last call made, with its arguments and its outcome
    nOps,       \* number of calls made
    line,       \* the line handed to the factory
    parsed      \* what EquityTextFactory::ParseEquity made of it

vars == <<_Map, fresh, istream, selected, insLog, call, nOps, line, parsed>>

(***************************************************************************)
(* Characters and strings                                                   *)
(***************************************************************************)

\* The modelled characters in ascending character-code order.
Ascii == <<"BS", "\t", "\n", "\r", " ", "-", ".",
           "0", "1", "2", "3", "4", "5", "6", "7", "8", "9",
           "A", "B", "C", "D", "E", "F", "G", "H", "I", "J", "K", "L", "M",
           "N", "O", "P", "Q", "R", "S", "T", "U", "V", "W", "X", "Y", "Z",
           "a", "d", "e", "x", "|">>

CharCode(c) == CHOOSE i \in 1..Len(Ascii) : Ascii[i] = c

Digits == {"0", "1", "2", "3", "4", "5", "6", "7", "8", "9"}

Upper == {"A", "B", "C", "D", "E", "F", "G", "H", "I", "J", "K", "L", "M",
          "N", "O", "P", "Q", "R", "S", "T", "U", "V", "W", "X", "Y", "Z"}

DigitVal(c) == CHOOSE n \in 0..9 : Ascii[n + 8] = c

\* std::string::find_first_not_of: index of the first character outside
\* 'set', 0 standing for npos.
FindFirstNotOf(s, set) ==
    IF \E i \in 1..Len(s) : s[i] \notin set
    THEN CHOOSE i \in 1..Len(s) :
            s[i] \notin set /\ \A j \in 1..(i - 1) : s[j] \in set
    ELSE 0

\* std::string::operator< (lexicographic on character codes).
RECURSIVE StrLess(_, _)
StrLess(a, b) ==
    IF b = <<>> THEN FALSE
    ELSE IF a = <<>> THEN TRUE
    ELSE IF Head(a) = Head(b) THEN StrLess(Tail(a), Tail(b))
    ELSE CharCode(Head(a)) < CharCode(Head(b))

\* std::getline's search for the delimiter: index of its first occurrence,
\* 0 when the text holds none.
FindDelimiter(text, delimiter) ==
    IF \E i \in 1..Len(text) : text[i] = delimiter
    THEN CHOOSE i \in 1..Len(text) :
            text[i] = delimiter /\ \A j \in 1..(i - 1) : text[j] # delimiter
    ELSE 0

\* StringSplitter: repeated std::getline(ss, cur, delimiter).  A token is
\* produced as long as a character (the delimiter included) could be
\* extracted, so text ending in the delimiter yields no trailing empty token.
RECURSIVE StringSplitter(_, _)
StringSplitter(text, delimiter) ==
    IF text = <<>> THEN <<>>
    ELSE LET ix == FindDelimiter(text, delimiter)
         IN  IF ix = 0 THEN <<text>>
             ELSE <<SubSeq(text, 1, ix - 1)>> \o
                  StringSplitter(SubSeq(text, ix + 1, Len(text)), delimiter)

LTrimChars == {" ", "\t", "\n", "\r", "BS"}

\* LTrim: an all-whitespace (or empty) string is returned as it is.
LTrim(orig) ==
    LET ix == FindFirstNotOf(orig, LTrimChars)
    IN  IF ix = 0 THEN orig ELSE SubSeq(orig, ix, Len(orig))

(***************************************************************************)
(* Numeric conversion                                                       *)
(***************************************************************************)

RECURSIVE StripZeros(_)
StripZeros(ds) ==
    IF Len(ds) > 1 /\ Head(ds) = "0" THEN StripZeros(Tail(ds)) ELSE ds

\* LLONG_MAX = 9223372036854775807
LLongMax == <<"9","2","2","3","3","7","2","0","3","6","8","5","4","7","7",
              "5","8","0","7">>

\* Comparison of two canonical digit sequences as numbers.
NumLess(a, b) ==
    \/ Len(a) < Len(b)
    \/ Len(a) = Len(b) /\ StrLess(a, b)

\* std::stoll on text made of digits only.
Stoll(input) ==
    IF input = <<>> THEN [kind |-> "throw", what |-> "invalid_argument"]
    ELSE LET v == StripZeros(input)
         IN  IF NumLess(LLongMax, v)
             THEN [kind |-> "throw", what |-> "out_of_range"]
             ELSE [kind |-> "ok", val |-> v]

\* Values of type double are counted in units of 1/Scale, which is exact for
\* decimal texts of at most FracDigits fractional digits.
FracDigits == 2

RECURSIVE Pow10(_)
Pow10(n) == IF n = 0 THEN 1 ELSE 10 * Pow10(n - 1)

Scale == Pow10(FracDigits)

\* A decimal text with this many significant integer digits exceeds DBL_MAX.
DblOverflowDigits == 310

RECURSIVE DigitsValue(_)
DigitsValue(ds) ==
    IF ds = <<>> THEN 0
    ELSE 10 * DigitsValue(SubSeq(ds, 1, Len(ds) - 1)) + DigitVal(ds[Len(ds)])

PadRight(ds, n) == [i \in 1..n |-> IF i <= Len(ds) THEN ds[i] ELSE "0"]

\* std::stod on text made of digits and '.' only: strtod converts the longest
\* prefix of the form digits [ '.' digits ] holding at least one digit and
\* ignores what follows it.
Stod(input) ==
    LET p    == FindFirstNotOf(input, Digits)
        ip   == IF p = 0 THEN input ELSE SubSeq(input, 1, p - 1)
        rest == IF p = 0 THEN <<>> ELSE SubSeq(input, p + 1, Len(input))
        q    == FindFirstNotOf(rest, Digits)
        fp   == IF q = 0 THEN rest ELSE SubSeq(rest, 1, q - 1)
    IN  IF Len(ip) + Len(fp) = 0
        THEN [kind |-> "throw", what |-> "invalid_argument"]
        ELSE IF ip # <<>> /\ Len(StripZeros(ip)) >= DblOverflowDigits
        THEN [kind |-> "throw", what |-> "out_of_range"]
        ELSE [kind |-> "ok",
              val  |-> DigitsValue(ip) * Scale
                       + DigitsValue(PadRight(fp, FracDigits))]

\* ParseString(const string&, long long&)
ParseString_ll(xinput) ==
    LET input == LTrim(xinput)
    IN  IF FindFirstNotOf(input, Digits) # 0 THEN [kind |-> "fail"]
        ELSE LET r == Stoll(input)
             IN  IF r.kind = "throw" /\ r.what = "out_of_range"
                 THEN [kind |-> "fail"]
                 ELSE r

\* ParseString(const string&, double&) letting a leading '-' through and
\* negating the value converted from what follows it.
ParseString_d_signed(xinput) ==
    LET input == LTrim(xinput)
        neg   == input # <<>> /\ Head(input) = "-"
        body  == IF neg THEN Tail(input) ELSE input
    IN  IF FindFirstNotOf(body, Digits \cup {"."}) # 0 THEN [kind |-> "fail"]
        ELSE LET r == Stod(body)
             IN  IF r.kind = "throw" /\ r.what = "out_of_range"
                 THEN [kind |-> "fail"]
                 ELSE IF r.kind = "ok" /\ neg
                 THEN [kind |-> "ok", val |-> 0 - r.val]
                 ELSE r

\* ParseString(const string&, double&)
ParseString_d(xinput) ==
    LET input == LTrim(xinput)
    IN  IF FindFirstNotOf(input, Digits \cup {"."}) # 0 THEN [kind |-> "fail"]
        ELSE LET r == Stod(input)
             IN  IF r.kind = "throw" /\ r.what = "out_of_range"
                 THEN [kind |-> "fail"]
                 ELSE r

(***************************************************************************)
(* EquityTextFactory                                                        *)
(***************************************************************************)

\* Equity::Equity(name, description, marketCap, price, PE_ratio)
Equity(equityName, description, marketCap, price, PE_ratio) ==
    [EquityName  |-> equityName,
     Description |-> description,
     MarketCap   |-> marketCap,
     Price       |-> price,
     PE_ratio    |-> PE_ratio]

\* enum { F_EquityName=0, ..., F_COUNT }; sequences are indexed from 1.
F_EquityName == 1
F_Description == 2
F_MarketCap == 3
F_Price == 4
F_PE_ratio == 5
F_COUNT == 5

EquityName_MaxLen == 6

\* parse_EquityName without the upper bound on the length.
parse_EquityName_noMaxLen(rawField) ==
    IF FindFirstNotOf(rawField, Upper \cup Digits) # 0 THEN FALSE
    ELSE IF Len(rawField) < 1 THEN FALSE
    ELSE TRUE

\* parse_EquityName: TRUE iff the field passes the business rules; the
\* target then receives the raw field.
parse_EquityName(rawField) ==
    IF FindFirstNotOf(rawField, Upper \cup Digits) # 0 THEN FALSE
    ELSE IF Len(rawField) < 1 \/ Len(rawField) > EquityName_MaxLen THEN FALSE
    ELSE TRUE

\* bool ParseEquity(const char*, Equity& result): "true" with the filled
\* record, "false", or "throw" when a conversion's exception leaves it.
ParseEquityInto(inputString) ==
    LET splitter == StringSplitter(inputString, "|")
    IN  IF Len(splitter) # F_COUNT THEN [kind |-> "false"]
        ELSE IF ~parse_EquityName(splitter[F_EquityName])
        THEN [kind |-> "false"]
        ELSE LET cap == ParseString_ll(splitter[F_MarketCap])
             IN  IF cap.kind = "throw" THEN cap
                 ELSE IF cap.kind = "fail" THEN [kind |-> "false"]
                 ELSE LET price == ParseString_d(splitter[F_Price])
                      IN  IF price.kind = "throw" THEN price
                          ELSE IF price.kind = "fail" THEN [kind |-> "false"]
                          ELSE LET pe == ParseString_d(splitter[F_PE_ratio])
                               IN  IF pe.kind = "throw" THEN pe
                                   ELSE IF pe.kind = "fail"
                                   THEN [kind |-> "false"]
                                   ELSE [kind   |-> "true",
                                         result |-> Equity(
                                             splitter[F_EquityName],
                                             splitter[F_Description],
                                             cap.val, price.val, pe.val)]

\* What the public ParseEquity makes of the private one's outcome r: a
\* pointer to a copy of the record, the null pointer, or the exception.
EquityPtrOf(r) ==
    IF r.kind = "true" THEN [kind |-> "ptr", rec |-> r.result]
    ELSE IF r.kind = "false" THEN [kind |-> "null"]
    ELSE r

\* EquityPtr ParseEquity(const char*): "ptr" to a new Equity, "null", or
\* "throw".
ParseEquity(inputString) == EquityPtrOf(ParseEquityInto(inputString))

(***************************************************************************)
(* Exceptions                                                               *)
(***************************************************************************)

\* The thrown objects whose type derives from std::exception.  FindByEquityName
\* throws the result of 'new', a std::domain_error*, which is a pointer.
StdExceptions == {"invalid_argument", "out_of_range", "runtime_error",
                  "domain_error"}

\* catch (std::exception e)
CatchStdException(what) == what \in StdExceptions

(***************************************************************************)
(* EquityFilter and its subclasses                                          *)
(***************************************************************************)

EquityFilter == [type |-> "EquityFilter"]

LowestPE_filter == [type |-> "LowestPE_filter"]

PE_RangeFilter(minPE, maxPE) ==
    [type |-> "PE_RangeFilter", minPE |-> minPE, maxPE |-> maxPE]

\* LowestPE_filter::Compare without the price comparison on equal P/E.
LowestPE_Compare_noTieBreak(left, right) ==
    IF left.PE_ratio < right.PE_ratio THEN "left"
    ELSE "right"

\* LowestPE_filter::Compare: which of its two arguments is returned.
LowestPE_Compare(left, right) ==
    IF left.PE_ratio < right.PE_ratio THEN "left"
    ELSE IF right.PE_ratio < left.PE_ratio THEN "right"
    ELSE IF left.Price < right.Price THEN "left"
    ELSE "right"

\* PE_RangeFilter::Select
PE_Range_Select(filter, elem) ==
    IF elem.PE_ratio < filter.minPE \/ elem.PE_ratio > filter.maxPE
    THEN FALSE
    ELSE TRUE

\* Virtual dispatch of Compare; the base class returns left.
Compare(filter, left, right) ==
    IF filter.type = "LowestPE_filter" THEN LowestPE_Compare(left, right)
    ELSE "left"

\* Virtual dispatch of Select; the base class returns false.
Select(filter, elem) ==
    IF filter.type = "PE_RangeFilter" THEN PE_Range_Select(filter, elem)
    ELSE FALSE

(***************************************************************************)
(* EquityMap: std::map<string, EquityPtr>, a function from keys to records  *)
(***************************************************************************)

EmptyMap == <<>>

\* begin() .. end(): the keys in ascending std::string order.
RECURSIVE KeyOrder(_)
KeyOrder(keys) ==
    IF keys = {} THEN <<>>
    ELSE LET first == CHOOSE k \in keys :
                          \A j \in keys \ {k} : StrLess(k, j)
         IN  <<first>> \o KeyOrder(keys \ {first})

\* Insert in the manner of std::map::insert: an existing entry is kept.
Insert_keepFirst(m, e) ==
    [k \in DOMAIN m \cup {e.EquityName} |->
        IF k \in DOMAIN m THEN m[k] ELSE e]

\* Insert keyed by the description instead of the name.
Insert_byDescription(m, e) ==
    [k \in DOMAIN m \cup {e.Description} |->
        IF k = e.Description THEN e ELSE m[k]]

\* EquityMap::Insert
Insert(m, e) ==
    [k \in DOMAIN m \cup {e.EquityName} |->
        IF k = e.EquityName THEN e ELSE m[k]]

\* EquityMap::FindByEquityName
FindByEquityName(m, name) ==
    IF name \notin DOMAIN m
    THEN [kind |-> "throw", what |-> "domain_error*"]
    ELSE [kind |-> "ptr", rec |-> m[name]]

\* The loop of SelectByFilter counting every record visited.
RECURSIVE SelectLoop_countAll(_, _, _, _, _)
SelectLoop_countAll(m, order, filter, nAdded, result) ==
    IF order = <<>> THEN [nAdded |-> nAdded, result |-> result]
    ELSE IF Select(filter, m[Head(order)])
    THEN SelectLoop_countAll(m, Tail(order), filter, nAdded + 1,
                             Insert(result, m[Head(order)]))
    ELSE SelectLoop_countAll(m, Tail(order), filter, nAdded + 1, result)

\* The loop of SelectByFilter over the keys 'order', from nAdded and result.
RECURSIVE SelectLoop(_, _, _, _, _)
SelectLoop(m, order, filter, nAdded, result) ==
    IF order = <<>> THEN [nAdded |-> nAdded, result |-> result]
    ELSE IF Select(filter, m[Head(order)])
    THEN SelectLoop(m, Tail(order), filter, nAdded + 1,
                    Insert(result, m[Head(order)]))
    ELSE SelectLoop(m, Tail(order), filter, nAdded, result)

\* EquityMap::SelectByFilter: the count returned and the result collection.
SelectByFilter(m, filter, result) ==
    IF Cardinality(DOMAIN m) = 0 THEN [nAdded |-> 0, result |-> result]
    ELSE SelectLoop(m, KeyOrder(DOMAIN m), filter, 0, result)

\* The loop of FindByCompareFilter taking the candidate when Compare returns
\* the object passed as left.
RECURSIVE CompareLoop_replaceOnLeft(_, _, _, _, _, _)
CompareLoop_replaceOnLeft(m, order, filter, cur, nCompare, compared) ==
    IF order = <<>>
    THEN [kind |-> "ptr", rec |-> m[cur],
          nCompare |-> nCompare, compared |-> compared]
    ELSE LET selectedSide == Compare(filter, m[cur], m[Head(order)])
         IN  IF selectedSide = "left"
             THEN CompareLoop_replaceOnLeft(m, Tail(order), filter, Head(order),
                      nCompare + 1,
                      Append(compared, [left |-> cur, right |-> Head(order)]))
             ELSE CompareLoop_replaceOnLeft(m, Tail(order), filter, cur,
                      nCompare + 1,
                      Append(compared, [left |-> cur, right |-> Head(order)]))

\* The loop of FindByCompareFilter: cur is the key of the current choice,
\* nCompare counts the calls of filter.Compare and compared lists them, each
\* with the keys of the records passed as left and as right.
RECURSIVE CompareLoop(_, _, _, _, _, _)
CompareLoop(m, order, filter, cur, nCompare, compared) ==
    IF order = <<>>
    THEN [kind |-> "ptr", rec |-> m[cur],
          nCompare |-> nCompare, compared |-> compared]
    ELSE LET selectedSide == Compare(filter, m[cur], m[Head(order)])
         IN  IF selectedSide # "left"
             THEN CompareLoop(m, Tail(order), filter, Head(order),
                      nCompare + 1,
                      Append(compared, [left |-> cur, right |-> Head(order)]))
             ELSE CompareLoop(m, Tail(order), filter, cur,
                      nCompare + 1,
                      Append(compared, [left |-> cur, right |-> Head(order)]))

\* EquityMap::FindByCompareFilter
FindByCompareFilter(m, filter) ==
    IF Cardinality(DOMAIN m) = 0
    THEN [kind |-> "null", nCompare |-> 0, compared |-> <<>>]
    ELSE LET order == KeyOrder(DOMAIN m)
         IN  IF Cardinality(DOMAIN m) = 1
             THEN [kind |-> "ptr", rec |-> m[order[1]],
                   nCompare |-> 0, compared |-> <<>>]
             ELSE CompareLoop(m, Tail(order), filter, order[1], 0, <<>>)

(***************************************************************************)
(* The lines of the input streams                                           *)
(***************************************************************************)

RECURSIVE Join(_, _)
Join(fields, sep) ==
    IF fields = <<>> THEN <<>>
    ELSE IF Len(fields) = 1 THEN fields[1]
    ELSE fields[1] \o <<sep>> \o Join(Tail(fields), sep)

Line(id, cap, price, pe) == Join(<<id, <<"d">>, cap, price, pe>>, "|")

\* The lines an input stream is made of: records for A (twice), B and C, a
\* line with a 7-character name and a line with an empty market cap.
StreamLines ==
    { Line(<<"A">>, <<"1">>, <<"2">>, <<"1">>),
      Line(<<"A">>, <<"7">>, <<"1", ".", "2", ".", "3">>, <<"2">>),
      Line(<<"B">>, <<"1">>, <<"1">>, <<"1">>),
      Line(<<"C">>, <<"1">>, <<"2">>, <<"1">>),
      Line(<<"T", "O", "O", "L", "O", "N", "G">>, <<"1">>, <<"1">>, <<"1">>),
      Line(<<"B">>, <<>>, <<"1">>, <<"1">>) }

(***************************************************************************)
(* EquityLoader                                                             *)
(***************************************************************************)

\* EquityTextFactory fact: what fact.ParseEquity returns for each line a
\* stream can hold.
fact == [l \in StreamLines |-> ParseEquity(l)]

\* The loader's loop leaving at the first line the factory rejects.
RECURSIVE LoaderLoop_stopAtBad(_, _)
LoaderLoop_stopAtBad(lines, output) ==
    IF lines = <<>>
    THEN [kind |-> "done", output |-> output, unread |-> <<>>]
    ELSE LET newEquity == fact[Head(lines)]
         IN  IF newEquity.kind = "ptr"
             THEN LoaderLoop_stopAtBad(Tail(lines),
                                       Insert(output, newEquity.rec))
             ELSE [kind |-> "done", output |-> output,
                   unread |-> Tail(lines)]

RECURSIVE LoaderLoop(_, _)

\* The body of the loader's loop for one line, newEquity being what
\* ParseEquity made of it: a null pointer and an exception caught by
\* catch (std::exception e) both lead to the next line.
LoaderStep(rest, output, newEquity) ==
    IF newEquity.kind = "throw" /\ ~CatchStdException(newEquity.what)
    THEN [kind |-> "throw", what |-> newEquity.what, output |-> output,
          unread |-> rest]
    ELSE IF newEquity.kind = "ptr"
    THEN LoaderLoop(rest, Insert(output, newEquity.rec))
    ELSE LoaderLoop(rest, output)

\* The while loop of the loader over the lines that follow the header: it
\* ends when std::getline finds no further line.
LoaderLoop(lines, output) ==
    IF lines = <<>>
    THEN [kind |-> "done", output |-> output, unread |-> <<>>]
    ELSE LoaderStep(Tail(lines), output, fact[Head(lines)])

\* The loader without the check that a header line could be read.
EquityLoader_noHeaderCheck(input, output) ==
    IF input = <<>>
    THEN [kind |-> "done", output |-> output, unread |-> <<>>]
    ELSE LoaderLoop(Tail(input), output)

\* EquityLoader::EquityLoader(input, output): the outcome, the caller's
\* collection and the lines left unread.
EquityLoader(input, output) ==
    IF input = <<>>
    THEN [kind |-> "throw", what |-> "runtime_error", output |-> output,
          unread |-> <<>>]
    ELSE LoaderLoop(Tail(input), output)

(***************************************************************************)
(* Input lines                                                              *)
(***************************************************************************)

Nines(n) == [i \in 1..n |-> "9"]

IdFields ==
    { <<"A">>, <<"B", "2">>, <<"A", "B", "1", "2", "C", "D">>,
      <<"A", "B", "1", "2", "C", "D", "E">>,
      <<>>, <<"a">>, <<"A", "-">>, <<" ", "A">> }

DescFields == { <<"d">>, <<>> }

CapFields ==
    { <<"1">>, <<"0", "0", "7">>, <<>>, <<" ", "1", "2">>, <<" ", " ">>,
      <<"1", "x">>, <<"-", "1">>, <<"BS", "5">>,
      LLongMax, SubSeq(LLongMax, 1, 18) \o <<"8">> }

DecFields ==
    { <<"1">>, <<"1", ".", "5">>, <<"0">>, <<".", "5">>, <<"1", ".">>,
      <<"1", ".", "2", ".", "3">>, <<".">>, <<>>,
      <<"-", "3", ".", "5">>, <<"\t", "2">>, Nines(DblOverflowDigits) }

\* Lines that do not split into F_COUNT tokens, or do so only through the
\* splitter's treatment of a trailing delimiter.
OddLines ==
    { <<>>, <<"H">>, <<"|">>,
      Join(<<<<"A">>, <<"d">>, <<"1">>, <<"1">>>>, "|"),
      Join(<<<<"A">>, <<"d">>, <<"1">>, <<"1">>, <<>>>>, "|"),
      Join(<<<<"A">>, <<"d">>, <<"1">>, <<"1">>, <<>>, <<>>>>, "|"),
      Join(<<<<"A">>, <<"d">>, <<"1">>, <<"1">>, <<"2">>, <<>>>>, "|"),
      Join(<<<<"A">>, <<"d">>, <<"1">>, <<"1">>, <<"2">>, <<"3">>>>, "|") }

ParseLines ==
    { Join(<<id, d, cap, price, pe>>, "|") :
        id \in IdFields, d \in DescFields, cap \in CapFields,
        price \in DecFields, pe \in DecFields } \cup OddLines

(***************************************************************************)
(* The factory on its own: one ParseEquity call per line                    *)
(***************************************************************************)

NoCall == [op |-> "none"]

ParseInit ==
    /\ line \in ParseLines
    /\ parsed = [kind |-> "none"]
    /\ _Map = EmptyMap
    /\ fresh = TRUE
    /\ istream = <<>>
    /\ selected = EmptyMap
    /\ insLog = <<>>
    /\ call = NoCall
    /\ nOps = 0

\* EquityTextFactory::ParseEquity(line)
ParseStep ==
    /\ parsed.kind = "none"
    /\ parsed' = ParseEquity(line)
    /\ UNCHANGED <<_Map, fresh, istream, selected, insLog, call, nOps, line>>

ParseNext == ParseStep

ParseSpec == ParseInit /\ [][ParseNext]_vars

(***************************************************************************)
(* EquityService and its caller                                             *)
(***************************************************************************)

MaxLines == 4
MaxOps == 3

RECURSIVE SeqsUpTo(_, _)
SeqsUpTo(S, n) ==
    IF n = 0 THEN {<<>>}
    ELSE LET shorter == SeqsUpTo(S, n - 1)
         IN  shorter \cup {Append(q, x) : q \in shorter, x \in S}

Streams == SeqsUpTo(StreamLines, MaxLines)

\* Names looked up with getSecurityInfo; Z is in no stream.
QueryNames == { <<"A">>, <<"B">>, <<"Z">> }

\* [minPE, maxPE] ranges handed to getPERange.
PERanges == { <<1 * Scale, 1 * Scale>>, <<0, 2 * Scale>>, <<2 * Scale, 1 * Scale>> }

\* Equity objects the caller constructs itself.
CallerEquities ==
    { Equity(<<"A">>, <<"x">>, <<"5">>, 3 * Scale, 3 * Scale),
      Equity(<<"a">>, <<"x">>, <<"5">>, 1 * Scale, 1 * Scale) }

\* Filters the caller applies to its own collection.
CallerFilters == { EquityFilter, PE_RangeFilter(1 * Scale, 3 * Scale) }

\* The filters the caller passes to FindByCompareFilter: the base class,
\* whose Compare returns left, and the one that orders by P/E and price.
CompareFilters == { EquityFilter, LowestPE_filter }

Init ==
    /\ _Map = EmptyMap
    /\ fresh = TRUE
    /\ istream = <<>>
    /\ selected = EmptyMap
    /\ insLog = <<>>
    /\ call = NoCall
    /\ nOps = 0
    /\ line = <<>>
    /\ parsed = [kind |-> "none"]

\* EquityService::initialize(input), the stream holding 'lines': the loader
\* reads them, and catch (...) turns whatever leaves the loader into 'false'.
initializeFrom(lines) ==
    /\ nOps < MaxOps
    /\ LET r == EquityLoader(lines, _Map)
       IN  /\ _Map' = r.output
           /\ istream' = r.unread
           /\ call' = [op    |-> "initialize",
                       lines |-> lines,
                       pre   |-> _Map,
                       ret   |-> (r.kind # "throw")]
    /\ fresh' = FALSE
    /\ nOps' = nOps + 1
    /\ UNCHANGED <<selected, insLog, line, parsed>>

\* The content of the stream shows when it is first read; a later call finds
\* what the earlier one left unread.
initialize ==
    \E lines \in (IF fresh THEN Streams ELSE {istream}) : initializeFrom(lines)

\* EquityService::getSecurityInfo(equityName)
getSecurityInfo(equityName) ==
    /\ nOps < MaxOps
    /\ LET r == FindByEquityName(_Map, equityName)
       IN  call' = [op     |-> "getSecurityInfo",
                    name   |-> equityName,
                    result |-> IF r.kind = "throw" /\ CatchStdException(r.what)
                               THEN [kind |-> "null"]
                               ELSE r]
    /\ nOps' = nOps + 1
    /\ UNCHANGED <<_Map, fresh, istream, selected, insLog, line, parsed>>

\* EquityService::lowestPE()
lowestPE ==
    /\ nOps < MaxOps
    /\ LET result == FindByCompareFilter(_Map, LowestPE_filter)
       IN  call' = [op     |-> "lowestPE",
                    filter |-> LowestPE_filter,
                    source |-> _Map,
                    found  |-> result,
                    ret    |-> IF result.kind = "ptr"
                               THEN result.rec.EquityName
                               ELSE <<>>]
    /\ nOps' = nOps + 1
    /\ UNCHANGED <<_Map, fresh, istream, selected, insLog, line, parsed>>

\* The records SelectByFilter hands to result.Insert, in order.
SelectedRecords(m, filter) ==
    LET order == KeyOrder(DOMAIN m)
    IN  SelectSeq([i \in 1..Len(order) |-> m[order[i]]],
                  LAMBDA e : Select(filter, e))

\* EquityService::getPERange(min_pe, max_pe, selected)
getPERange(min_pe, max_pe) ==
    /\ nOps < MaxOps
    /\ LET filter == PE_RangeFilter(min_pe, max_pe)
           r      == SelectByFilter(_Map, filter, selected)
       IN  /\ selected' = r.result
           /\ insLog' = insLog \o SelectedRecords(_Map, filter)
           /\ call' = [op     |-> "getPERange",
                       filter |-> filter,
                       source |-> _Map,
                       pre    |-> selected,
                       result |-> r.result,
                       ret    |-> r.nAdded]
    /\ nOps' = nOps + 1
    /\ UNCHANGED <<_Map, fresh, istream, line, parsed>>

\* selected.Insert(e), e an Equity of the caller's making
InsertCall(e) ==
    /\ nOps < MaxOps
    /\ selected' = Insert(selected, e)
    /\ insLog' = Append(insLog, e)
    /\ call' = [op |-> "Insert", arg |-> e, pre |-> selected]
    /\ nOps' = nOps + 1
    /\ UNCHANGED <<_Map, fresh, istream, line, parsed>>

\* selected.SelectByFilter(filter, result), result a new EquityMap
SelectCall(filter) ==
    /\ nOps < MaxOps
    /\ LET r == SelectByFilter(selected, filter, EmptyMap)
       IN  call' = [op     |-> "SelectByFilter",
                    filter |-> filter,
                    source |-> selected,
                    pre    |-> EmptyMap,
                    result |-> r.result,
                    ret    |-> r.nAdded]
    /\ nOps' = nOps + 1
    /\ UNCHANGED <<_Map, fresh, istream, selected, insLog, line, parsed>>

\* selected.FindByCompareFilter(filter)
CompareCall(filter) ==
    /\ nOps < MaxOps
    /\ call' = [op     |-> "FindByCompareFilter",
                filter |-> filter,
                source |-> selected,
                found  |-> FindByCompareFilter(selected, filter)]
    /\ nOps' = nOps + 1
    /\ UNCHANGED <<_Map, fresh, istream, selected, insLog, line, parsed>>

Next ==
    \/ initialize
    \/ \E name \in QueryNames : getSecurityInfo(name)
    \/ lowestPE
    \/ \E range \in PERanges : getPERange(range[1], range[2])
    \/ \E e \in CallerEquities : InsertCall(e)
    \/ \E filter \in CallerFilters : SelectCall(filter)
    \/ \E filter \in CompareFilters : CompareCall(filter)

Spec == Init /\ [][Next]_vars

(***************************************************************************)
(* Properties                                                               *)
(***************************************************************************)

\* Every key of m is the name of the record stored under it.
KeysAreNames(m) == \A k \in DOMAIN m : m[k].EquityName = k

\* The identifier field of a line: its text up to the first '|'.
IdentField(l) ==
    LET ix == FindDelimiter(l, "|")
    IN  IF ix = 0 THEN l ELSE SubSeq(l, 1, ix - 1)

\* The business rule for identifiers, stated on its own.
IdentOK(f) ==
    /\ Len(f) \in 1..6
    /\ \A i \in 1..Len(f) : f[i] \in Upper \cup Digits

AllDigits(f) == f # <<>> /\ \A i \in 1..Len(f) : f[i] \in Digits

\* A single well-formed decimal: digits, at most one '.', at least one digit.
WellFormedDecimal(f) ==
    /\ \A i \in 1..Len(f) : f[i] \in Digits \cup {"."}
    /\ Cardinality({i \in 1..Len(f) : f[i] = "."}) <= 1
    /\ \E i \in 1..Len(f) : f[i] \in Digits

\* A field the charset check of the decimal conversion lets through.
PassesDecimalCharset(f) ==
    \A i \in 1..Len(LTrim(f)) : LTrim(f)[i] \in Digits \cup {"."}

\* The fields after the identifier are five in all and plainly valid.
RestWellFormed(l) ==
    LET toks == StringSplitter(l, "|")
    IN  /\ Len(toks) = 5
        /\ AllDigits(toks[3]) /\ Len(toks[3]) <= 18
        /\ WellFormedDecimal(toks[4]) /\ Len(toks[4]) <= 4
        /\ WellFormedDecimal(toks[5]) /\ Len(toks[5]) <= 4

\* C1: looking up a name that is not in the store makes getSecurityInfo
\* return the null pointer; nothing is thrown to the caller.
C1_AbsentNameReturnsNull ==
    (call.op = "getSecurityInfo" /\ call.name \notin DOMAIN _Map)
        => call.result = [kind |-> "null"]

\* C2: ParseEquity ends with a record or with the null result for every
\* line; no exception leaves it.
C2_ParseNeverThrows == parsed.kind \in {"none", "ptr", "null"}

\* The indices after the header of the lines the factory accepts.
Accepted(lines) == {i \in 2..Len(lines) : fact[lines[i]].kind = "ptr"}

\* The names of the records of those lines.
ParsedNames(lines) == {fact[lines[i]].rec.EquityName : i \in Accepted(lines)}

\* The record of the last accepted line named k.
LastParsed(lines, k) ==
    LET hits == {i \in Accepted(lines) : fact[lines[i]].rec.EquityName = k}
    IN  fact[lines[CHOOSE i \in hits : \A j \in hits : j <= i]].rec

\* C3: initialize on a new service and a stream of at least one line returns
\* true, reads the stream to its end, and leaves in the store exactly the
\* records of the lines after the first that parse to a record, the last one
\* for each name.
C3_IngestionProcessesEveryLine ==
    (call.op = "initialize" /\ Len(call.lines) >= 1) =>
        /\ call.ret = TRUE
        /\ istream = <<>>
        /\ call.pre = EmptyMap
        /\ DOMAIN _Map = ParsedNames(call.lines)
        /\ \A k \in DOMAIN _Map : _Map[k] = LastParsed(call.lines, k)

\* A valid header is discarded, and a valid line is stored although a line
\* returning null and a line throwing precede it.
C3_Witness ==
    /\ call.op = "initialize"
    /\ Len(call.lines) = 4
    /\ ParseEquity(call.lines[1]).kind = "ptr"
    /\ ParseEquity(call.lines[1]).rec.EquityName \notin DOMAIN _Map
    /\ ParseEquity(call.lines[2]).kind = "null"
    /\ ParseEquity(call.lines[3]).kind = "throw"
    /\ ParseEquity(call.lines[4]).kind = "ptr"
    /\ ParseEquity(call.lines[4]).rec.EquityName \in DOMAIN _Map

\* C4: initialize returns false exactly when the stream has no line at all,
\* and the store is then as it was (empty, on a new service).
C4_SetupFatalOnlyWithoutHeader ==
    call.op = "initialize" =>
        /\ (call.ret = FALSE) <=> (call.lines = <<>>)
        /\ call.ret = FALSE => _Map = call.pre
        /\ (call.ret = FALSE /\ call.pre = EmptyMap) => _Map = EmptyMap

C4_Witness ==
    /\ call.op = "initialize"
    /\ call.lines = <<>>
    /\ call.ret = FALSE
    /\ nOps = 1
    /\ _Map = EmptyMap

\* C5: the caller's store holds, for each name ever inserted, exactly the
\* record inserted last under it, FindByEquityName returns that record, and
\* an Insert leaves the entries of the other names as they were.
C5_LastWriteWins ==
    /\ DOMAIN selected = {insLog[i].EquityName : i \in 1..Len(insLog)}
    /\ \A k \in DOMAIN selected :
          LET hits == {i \in 1..Len(insLog) : insLog[i].EquityName = k}
              last == CHOOSE i \in hits : \A j \in hits : j <= i
          IN  /\ selected[k] = insLog[last]
              /\ FindByEquityName(selected, k)
                    = [kind |-> "ptr", rec |-> insLog[last]]
    /\ call.op = "Insert" =>
          \A k \in DOMAIN call.pre \ {call.arg.EquityName} :
              k \in DOMAIN selected /\ selected[k] = call.pre[k]

\* An Insert replaced a different record of the same name, another name
\* being present.
C5_Witness ==
    /\ call.op = "Insert"
    /\ call.arg.EquityName \in DOMAIN call.pre
    /\ call.pre[call.arg.EquityName] # call.arg
    /\ Cardinality(DOMAIN selected) >= 2

\* C6: in the service's store, in the caller's store and in every result
\* store of a selection, each key is the name of the record under it.
C6_KeysAreNames ==
    /\ KeysAreNames(_Map)
    /\ KeysAreNames(selected)
    /\ call.op \in {"getPERange", "SelectByFilter"} => KeysAreNames(call.result)

C6_Witness ==
    /\ call.op = "SelectByFilter"
    /\ call.result # EmptyMap
    /\ _Map # EmptyMap
    /\ Cardinality(DOMAIN selected) >= 2

\* C7: a selection into an empty result store returns the number of records
\* of the source that the filter selects, the result store holds exactly
\* those records under their names, and the source store is unchanged.
C7_SelectionIsExact ==
    (call.op \in {"getPERange", "SelectByFilter"} /\ call.pre = EmptyMap) =>
        LET matching == {k \in DOMAIN call.source :
                            Select(call.filter, call.source[k])}
        IN  /\ call.ret = Cardinality(matching)
            /\ DOMAIN call.result = matching
            /\ \A k \in matching : call.result[k] = call.source[k]
            /\ call.op = "getPERange" =>
                  _Map = call.source /\ selected = call.result
            /\ call.op = "SelectByFilter" => selected = call.source

\* Some but not all of three records were selected.
C7_Witness ==
    /\ call.op = "getPERange"
    /\ call.pre = EmptyMap
    /\ Cardinality(DOMAIN call.source) = 3
    /\ call.ret \in {1, 2}

\* C8: lowestPE returns the name of a record with no record of lower P/E
\* and no record of equal P/E and lower price, and the empty string for an
\* empty store.
C8_LowestPE ==
    call.op = "lowestPE" =>
        IF _Map = EmptyMap THEN call.ret = <<>>
        ELSE /\ call.ret \in DOMAIN _Map
             /\ \A k \in DOMAIN _Map :
                   /\ ~(_Map[k].PE_ratio < _Map[call.ret].PE_ratio)
                   /\ _Map[k].PE_ratio = _Map[call.ret].PE_ratio
                         => ~(_Map[k].Price < _Map[call.ret].Price)

\* Three records of equal P/E; the one of lowest price is in the middle.
C8_Witness ==
    /\ call.op = "lowestPE"
    /\ Cardinality(DOMAIN _Map) = 3
    /\ \A k \in DOMAIN _Map : _Map[k].PE_ratio = _Map[call.ret].PE_ratio
    /\ \E k \in DOMAIN _Map : _Map[call.ret].Price < _Map[k].Price
    /\ call.ret = <<"B">>

\* C9: a line whose identifier field breaks the rule is rejected; a valid
\* identifier with plainly valid other fields is accepted; a record returned
\* carries the identifier field as written.
C9_IdentifierRule ==
    parsed.kind # "none" =>
        /\ ~IdentOK(IdentField(line)) => parsed.kind = "null"
        /\ (IdentOK(IdentField(line)) /\ RestWellFormed(line))
              => parsed.kind = "ptr"
        /\ parsed.kind = "ptr" => parsed.rec.EquityName = IdentField(line)

\* A 7-character uppercase identifier is the only thing wrong with the line.
C9_Witness ==
    /\ parsed.kind = "null"
    /\ Len(IdentField(line)) = 7
    /\ \A i \in 1..7 : IdentField(line)[i] \in Upper \cup Digits
    /\ RestWellFormed(line)

\* C10: a five-field line whose price or P/E field passes the charset check
\* without being a single well-formed decimal (more than one '.', or no
\* digit) is rejected by the conversion: no record is produced from it.
C10_MalformedDecimalNoRecord ==
    LET toks == StringSplitter(line, "|")
        Malformed(f) == PassesDecimalCharset(f) /\ ~WellFormedDecimal(LTrim(f))
    IN  (parsed.kind # "none" /\ Len(toks) = 5
            /\ (Malformed(toks[4]) \/ Malformed(toks[5])))
          => parsed.kind # "ptr"

\* A line of five fields whose identifier, market cap and price are valid.
ValidUpToPrice(l) ==
    LET toks == StringSplitter(l, "|")
    IN  /\ Len(toks) = 5
        /\ IdentOK(toks[1])
        /\ AllDigits(toks[3]) /\ Len(toks[3]) <= 18
        /\ WellFormedDecimal(toks[4]) /\ Len(toks[4]) <= 4

\* A decimal of value zero: well formed, and every digit of it is '0'.
ZeroDecimal(f) ==
    WellFormedDecimal(f) /\ \A i \in 1..Len(f) : f[i] \in {"0", "."}

\* A negative decimal: '-' before a well-formed decimal that is not zero.
NegativeDecimal(f) ==
    /\ f # <<>> /\ Head(f) = "-"
    /\ WellFormedDecimal(Tail(f)) /\ ~ZeroDecimal(Tail(f))

\* The value a negative decimal denotes, in units of 1/Scale.
NegativeValue(f) == 0 - Stod(Tail(f)).val

\* C11 as stated: a line that is valid up to the price and whose P/E field is
\* a negative or zero decimal is accepted, and the record carries that P/E.
C11_AnySignAccepted ==
    LET pe == StringSplitter(line, "|")[5]
    IN  (parsed.kind # "none" /\ ValidUpToPrice(line)
            /\ (ZeroDecimal(pe) \/ NegativeDecimal(pe)))
          => /\ parsed.kind = "ptr"
             /\ parsed.rec.PE_ratio
                   = (IF ZeroDecimal(pe) THEN 0 ELSE NegativeValue(pe))

\* C11, amended: on a line that is valid up to the price, a zero P/E field
\* is accepted and the record carries P/E 0, while a negative P/E field is
\* refused by the charset check of the decimal conversion: ParseEquity
\* returns the null result for it.
C11_ZeroAcceptedNegativeRejected ==
    LET pe == StringSplitter(line, "|")[5]
    IN  (parsed.kind # "none" /\ ValidUpToPrice(line))
          => /\ ZeroDecimal(pe)
                  => parsed.kind = "ptr" /\ parsed.rec.PE_ratio = 0
             /\ NegativeDecimal(pe) => parsed.kind = "null"

\* The P/E field -3.5 is the only thing that keeps the line from a record.
C11_Witness ==
    /\ parsed.kind = "null"
    /\ ValidUpToPrice(line)
    /\ StringSplitter(line, "|")[5] = <<"-", "3", ".", "5">>

\* The i-th key of a store in ascending order: the key that has exactly
\* i - 1 keys of the store before it.
KeyAt(m, i) ==
    CHOOSE k \in DOMAIN m :
        Cardinality({j \in DOMAIN m : StrLess(j, k)}) = i - 1

\* The key a fold step goes on with: the candidate exactly when Compare
\* does not return the record passed as best.
KeptAfter(m, filter, best, candidate) ==
    IF Compare(filter, m[best], m[candidate]) # "left"
    THEN candidate ELSE best

\* C12: FindByCompareFilter returns none for an empty store and the sole
\* record of a one-element store without a call of Compare; otherwise it
\* folds once over the records in ascending key order from the first one,
\* calling Compare(best, candidate) once per remaining record and going on
\* with the candidate exactly when Compare does not return best.  The result
\* is a record of the store, and the store is left as it was.
C12_CompareFold ==
    call.op \in {"lowestPE", "FindByCompareFilter"} =>
        LET m   == call.source
            N   == Cardinality(DOMAIN call.source)
            r   == call.found
            log == call.found.compared
        IN  /\ r.nCompare = Len(log)
            /\ N = 0 => r.kind = "null" /\ log = <<>>
            /\ N = 1 => /\ r.kind = "ptr"
                        /\ r.rec = m[KeyAt(m, 1)]
                        /\ log = <<>>
            /\ N >= 2 =>
                  /\ r.kind = "ptr"
                  /\ Len(log) = N - 1
                  /\ log[1].left = KeyAt(m, 1)
                  /\ \A i \in 1..(N - 1) : log[i].right = KeyAt(m, i + 1)
                  /\ \A i \in 1..(N - 2) :
                        log[i + 1].left
                          = KeptAfter(m, call.filter, log[i].left, log[i].right)
                  /\ r.rec = m[KeptAfter(m, call.filter,
                                         log[N - 1].left, log[N - 1].right)]
            /\ r.kind = "ptr" => \E k \in DOMAIN m : r.rec = m[k]
            /\ call.op = "lowestPE" => _Map = m
            /\ call.op = "FindByCompareFilter" => selected = m

\* A store of three records where the fold takes the second record in its
\* first step and keeps it in the second.
C12_Witness ==
    /\ call.op \in {"lowestPE", "FindByCompareFilter"}
    /\ Cardinality(DOMAIN call.source) = 3
    /\ Len(call.found.compared) = 2
    /\ call.found.compared[2].left = call.found.compared[1].right
    /\ call.found.rec = call.source[call.found.compared[2].left]

====
